---- MODULE Spec2Model ----
(***************************************************************************)
(* Model of the todo backend (src/todo_backend/src/api/main.py): a FastAPI *)
(* service over one SQLite table `todos`.  Each request handler runs in a  *)
(* worker thread; a handler's calls into sqlite3 are separate steps, so    *)
(* handlers of different requests interleave between calls.  A write       *)
(* statement takes the RESERVED lock of the database file and opens a      *)
(* transaction that the handler's commit() ends; a write statement that    *)
(* finds the lock taken fails (database is locked) and the request is      *)
(* answered 500.  A SELECT that finds a row leaves the SHARED lock held    *)
(* until the row is fetched; a commit() that finds another connection's    *)
(* SHARED lock fails the same way and close() rolls the write back.        *)
(* Readers see a written row only after the commit.                        *)
(*                                                                         *)
(* Timestamps are the ISO-8601 strings of _utc_now_iso; they are modelled  *)
(* by the whole second they denote (the fixed format makes string order    *)
(* and second order agree).  The clock itself runs in sub-second ticks.    *)
(***************************************************************************)
EXTENDS Integers, Sequences, FiniteSets, TLC

\* ---- bounds of the model ------------------------------------------------
MaxRequests == 3     \* requests accepted in one behaviour
MaxId == 2           \* largest id a request names
MaxClock == 2        \* last tick of the clock
TicksPerSec == 2     \* clock ticks in one second

Procs == {1, 2}                      \* worker threads: two requests in flight at once
Ids == 0..MaxId                      \* path parameter {id}; 0 fails ge=1
NoBody == [k \in {} |-> TRUE]        \* JSON object {} / no request body

\* JSON bodies of POST /todos: title "a" or "", title and completed may each
\* be left out.
CreateBodies ==
    {[title |-> "a", completed |-> c] : c \in BOOLEAN}
        \cup {[title |-> "a"], [title |-> ""]}
        \cup {[completed |-> TRUE]}

\* JSON bodies of PUT /todos/{id}: title "b" or "", title and completed may
\* each be left out.
UpdateBodies ==
    {[title |-> "b", completed |-> c] : c \in BOOLEAN}
        \cup {[title |-> "", completed |-> TRUE]}
        \cup {[title |-> "b"]}
        \cup {[completed |-> FALSE]}

VARIABLES
    schema,     \* TRUE when the table todos exists in the database file
    todos,      \* the table: id -> row
    seq,        \* sqlite_sequence.seq of todos (AUTOINCREMENT)
    clock,      \* the UTC clock, in ticks
    pc,         \* pc[p]: the statement request p is at
    req,        \* req[p]: the request: op, id, body
    loc,        \* loc[p]: the handler's locals: current_completed, new_completed, now, todo_id
    res,        \* res[p]: the response: status, body (a list of Todo), total
    conns,      \* the requests holding an open connection
    served,     \* the number of requests accepted so far
    issued,     \* history: the ids assigned by INSERT, in order, each with the
                \* ids the table held when it was assigned
    written,    \* history: id -> the fields the last applied write supplied
    toggles,    \* history: id -> completed as stored before each of the last (at most
                \* two) toggles applied to id since its last create or update
    deleted,    \* history: the ids a DELETE has removed
    fresh,      \* history: the requests that read the clock for their write after
                \* the last write applied to their row
    boots,      \* history: the ids each run of _startup found in the table,
                \* in order
    present,    \* history: the delete requests whose id was in the table when
                \* they opened their connection
    txn         \* the open write transaction: the request holding the write
                \* lock of the database file (0: none) and the table and id
                \* counter as its connection sees them, uncommitted

vars == <<schema, todos, seq, clock, pc, req, loc, res, conns, served,
          issued, written, toggles, deleted, fresh, boots, present, txn>>

\* ---- pure helpers ---------------------------------------------------------

\* _utc_now_iso: the clock with the sub-second part dropped (microsecond=0).
UtcNowIso(c) == c \div TicksPerSec

\* mutant of ValidTitle: min_length=1 left out of the Field
ValidTitleNoMinLength(body) == "title" \in DOMAIN body

\* TodoBase.title / TodoUpdate.title: required, min_length=1.
ValidTitle(body) == "title" \in DOMAIN body /\ Len(body.title) >= 1

\* TodoCreate: title valid; completed optional.
ValidCreate(body) == ValidTitle(body)

\* mutant of CreateCompleted: default=True
CreateCompletedDefaultTrue(body) ==
    IF "completed" \in DOMAIN body THEN body.completed ELSE TRUE

\* TodoCreate.completed: default False when left out.
CreateCompleted(body) ==
    IF "completed" \in DOMAIN body THEN body.completed ELSE FALSE

\* TodoUpdate: title valid and completed required.
ValidUpdate(body) == ValidTitle(body) /\ "completed" \in DOMAIN body

\* Path(..., ge=1)
ValidId(id) == id >= 1

\* completed_int = 1 if payload.completed else 0
CompletedInt(b) == IF b THEN 1 ELSE 0

\* mutant of NewCompleted: the two branches swapped
NewCompletedSwapped(current_completed) == IF current_completed = 1 THEN 1 ELSE 0

\* new_completed = 0 if current_completed == 1 else 1
NewCompleted(current_completed) == IF current_completed = 1 THEN 0 ELSE 1

\* _row_to_todo
RowToTodo(row) ==
    [id |-> row.id, title |-> row.title, completed |-> (row.completed # 0),
     created_at |-> row.created_at, updated_at |-> row.updated_at]

MaxOf(S) == CHOOSE m \in S : \A x \in S : x <= m

\* ---- SQL statements -------------------------------------------------------

\* mutant of CreateTableIfNotExists: the table created anew at each start
CreateTableAnew(db) ==
    [schema |-> TRUE, todos |-> [i \in {} |-> 0], seq |-> 0]

\* CREATE TABLE IF NOT EXISTS todos (...): the store as a record.
CreateTableIfNotExists(db) ==
    IF db.schema THEN db
    ELSE [schema |-> TRUE, todos |-> [i \in {} |-> 0], seq |-> 0]

\* mutant of NextRowid: INTEGER PRIMARY KEY without AUTOINCREMENT
NextRowidNoAutoincrement(tbl, s) ==
    (IF DOMAIN tbl = {} THEN 0 ELSE MaxOf(DOMAIN tbl)) + 1

\* id INTEGER PRIMARY KEY AUTOINCREMENT: one more than the largest rowid the
\* table has ever held (sqlite_sequence), never less than the largest present.
NextRowid(tbl, s) ==
    (IF DOMAIN tbl = {} THEN s ELSE IF MaxOf(DOMAIN tbl) > s THEN MaxOf(DOMAIN tbl) ELSE s) + 1

\* INSERT INTO todos (title, completed, created_at, updated_at) VALUES (?,?,?,?)
SqlInsert(tbl, s, title, completed_int, now) ==
    LET rid == NextRowid(tbl, s) IN
    [x \in DOMAIN tbl \cup {rid} |->
        IF x = rid
        THEN [id |-> rid, title |-> title, completed |-> completed_int,
              created_at |-> now, updated_at |-> now]
        ELSE tbl[x]]

\* SELECT * FROM todos WHERE id = ?  .fetchone(): <<>> is None.
SelectById(tbl, id) == IF id \in DOMAIN tbl THEN <<tbl[id]>> ELSE <<>>

\* mutant of SelectAllDesc: ORDER BY id ASC
MinOf(S) == CHOOSE m \in S : \A x \in S : m <= x
RECURSIVE SelectAllAsc(_)
SelectAllAsc(tbl) ==
    IF DOMAIN tbl = {} THEN <<>>
    ELSE LET m == MinOf(DOMAIN tbl) IN
         <<tbl[m]>> \o SelectAllAsc([x \in DOMAIN tbl \ {m} |-> tbl[x]])

\* SELECT * FROM todos ORDER BY id DESC  .fetchall()
RECURSIVE SelectAllDesc(_)
SelectAllDesc(tbl) ==
    IF DOMAIN tbl = {} THEN <<>>
    ELSE LET m == MaxOf(DOMAIN tbl) IN
         <<tbl[m]>> \o SelectAllDesc([x \in DOMAIN tbl \ {m} |-> tbl[x]])

\* mutant of SqlUpdate: SET created_at = ? where updated_at is meant
SqlUpdateStampsCreatedAt(tbl, title, completed_int, now, id) ==
    [x \in DOMAIN tbl |->
        IF x = id
        THEN [tbl[x] EXCEPT !.title = title, !.completed = completed_int,
                            !.created_at = now]
        ELSE tbl[x]]

\* mutant of SqlUpdate: the WHERE clause left out
SqlUpdateAllRows(tbl, title, completed_int, now, id) ==
    [x \in DOMAIN tbl |->
        [tbl[x] EXCEPT !.title = title, !.completed = completed_int,
                       !.updated_at = now]]

\* mutant of SqlUpdate: title left out of the SET list
SqlUpdateKeepsTitle(tbl, title, completed_int, now, id) ==
    [x \in DOMAIN tbl |->
        IF x = id
        THEN [tbl[x] EXCEPT !.completed = completed_int, !.updated_at = now]
        ELSE tbl[x]]

\* UPDATE todos SET title = ?, completed = ?, updated_at = ? WHERE id = ?
SqlUpdate(tbl, title, completed_int, now, id) ==
    [x \in DOMAIN tbl |->
        IF x = id
        THEN [tbl[x] EXCEPT !.title = title, !.completed = completed_int,
                            !.updated_at = now]
        ELSE tbl[x]]

\* mutant of SqlToggle: the row's created_at bound to updated_at, not `now`
SqlToggleStampsCreatedAt(tbl, new_completed, now, id) ==
    [x \in DOMAIN tbl |->
        IF x = id
        THEN [tbl[x] EXCEPT !.completed = new_completed,
                            !.updated_at = tbl[x].created_at]
        ELSE tbl[x]]

\* mutant of SqlToggle: SET completed = 1 - completed, the flip done by the store
SqlToggleFlipStored(tbl, new_completed, now, id) ==
    [x \in DOMAIN tbl |->
        IF x = id
        THEN [tbl[x] EXCEPT !.completed = 1 - tbl[x].completed, !.updated_at = now]
        ELSE tbl[x]]

\* mutant of SqlToggle: updated_at left out of the SET list
SqlToggleKeepsStamp(tbl, new_completed, now, id) ==
    [x \in DOMAIN tbl |->
        IF x = id THEN [tbl[x] EXCEPT !.completed = new_completed] ELSE tbl[x]]

\* UPDATE todos SET completed = ?, updated_at = ? WHERE id = ?
SqlToggle(tbl, new_completed, now, id) ==
    [x \in DOMAIN tbl |->
        IF x = id
        THEN [tbl[x] EXCEPT !.completed = new_completed, !.updated_at = now]
        ELSE tbl[x]]

\* mutant of SqlDelete: a DELETE with no WHERE clause
SqlDeleteAllRows(tbl, id) == [x \in {} |-> 0]

\* mutant of SqlDelete: the DELETE is never committed
SqlDeleteUncommitted(tbl, id) == tbl

\* DELETE FROM todos WHERE id = ?
SqlDelete(tbl, id) == [x \in DOMAIN tbl \ {id} |-> tbl[x]]

\* mutant of DeleteRowcount: the rows the table held, not the rows deleted
DeleteRowcountOfTable(tbl, id) == 1

\* cur.rowcount of the DELETE
DeleteRowcount(tbl, id) == IF id \in DOMAIN tbl THEN 1 ELSE 0

\* ---- requests, locals, responses ------------------------------------------

NoReq == [op |-> "none", id |-> 0, body |-> NoBody]
NoLoc == [current_completed |-> 0, new_completed |-> 0, now |-> 0, todo_id |-> 0]
NoRes == [status |-> 0, body |-> <<>>, total |-> 0]

Response(status, body) == [status |-> status, body |-> body, total |-> 0]

\* return _row_to_todo(row): a TypeError (500) when row is None.
RowResponse(status, row) ==
    IF row = <<>> THEN Response(500, <<>>)
    ELSE Response(status, <<RowToTodo(row[1])>>)

RECURSIVE MapRowToTodo(_)
MapRowToTodo(rows) ==
    IF rows = <<>> THEN <<>>
    ELSE <<RowToTodo(Head(rows))>> \o MapRowToTodo(Tail(rows))

\* history of the toggles applied to one id: the last two are kept
Push(h, e) == IF Len(h) < 2 THEN Append(h, e) ELSE <<h[2], e>>

\* a request that returns without its finally clause leaves its connection
\* open
CloseLeaks(cs, p) == cs

\* conn = _connect(): the request holds an open connection
Connect(cs, p) == cs \cup {p}

\* finally: conn.close()
Close(cs, p) == cs \ {p}

\* no write transaction is open: the write lock of the database file is free
NoTxn == [owner |-> 0, todos |-> [i \in {} |-> 0], seq |-> 0]

\* a write statement of request p has taken the write lock (the implicit BEGIN
\* of sqlite3 before INSERT, UPDATE and DELETE) and left the table as tbl and
\* the id counter as s in the transaction of p's connection
Begin(p, tbl, s) == [owner |-> p, todos |-> tbl, seq |-> s]

\* a statement or a commit that finds the database locked until the busy
\* timeout of sqlite3.connect (5 s) runs out raises OperationalError
\* ('database is locked'): the finally clause closes the connection and the
\* request is answered 500
Busy(p) ==
    /\ pc' = [pc EXCEPT ![p] = "done"]
    /\ res' = [res EXCEPT ![p] = Response(500, <<>>)]
    /\ conns' = Close(conns, p)

\* the requests whose connection holds a shared lock of the database file:
\* those that have executed a SELECT that found a row and have not fetched it
Shared ==
    {p \in Procs : pc[p] \in {"create_fetch", "list_fetch", "get_fetch", "update_fetch",
                               "update_refetch", "toggle_fetch", "toggle_refetch"}}

Finish(p, r) ==
    /\ pc' = [pc EXCEPT ![p] = "done"]
    /\ res' = [res EXCEPT ![p] = r]

Init ==
    /\ schema = FALSE
    /\ todos = [i \in {} |-> 0]
    /\ seq = 0
    /\ clock = 0
    /\ pc = [p \in Procs |-> "idle"]
    /\ req = [p \in Procs |-> NoReq]
    /\ loc = [p \in Procs |-> NoLoc]
    /\ res = [p \in Procs |-> NoRes]
    /\ conns = {}
    /\ served = 0
    /\ issued = <<>>
    /\ written = [i \in {} |-> 0]
    /\ toggles = [i \in {} |-> 0]
    /\ deleted = {}
    /\ fresh = {}
    /\ boots = <<>>
    /\ present = {}
    /\ txn = NoTxn

store == <<schema, todos, seq>>
ghost == <<issued, written, toggles, deleted>>

\* the bound on requests and restarts leaves room for one more
Budget == served + Len(boots) <= MaxRequests

\* _startup / _init_db: runs each time the process starts, before it serves.
\* A restart counts against the bound on requests.
Startup ==
    /\ \A p \in Procs : pc[p] = "idle"
    /\ boots = <<>> \/ Budget
    /\ boots' = Append(boots, DOMAIN todos)
    /\ UNCHANGED <<present, txn>>
    /\ LET db == CreateTableIfNotExists([schema |-> schema, todos |-> todos, seq |-> seq]) IN
        /\ schema' = db.schema
        /\ todos' = db.todos
        /\ seq' = db.seq
    /\ UNCHANGED <<clock, pc, req, loc, res, conns, served, ghost, fresh>>

\* the clock advances; ticks that no request within the bound can read (no
\* request is still to come and none in flight has its clock read ahead) are
\* left out
Tick ==
    /\ clock < MaxClock
    /\ \/ Budget
       \/ \E p \in Procs : pc[p] \in {"update_fetch", "update_now", "toggle_fetch", "toggle_now"}
    /\ clock' = clock + 1
    /\ UNCHANGED <<store, pc, req, loc, res, conns, served, ghost, fresh>>
    /\ UNCHANGED <<boots, present>>
    /\ UNCHANGED txn

\* worker p takes a request off the socket
Accept(p) ==
    /\ schema
    /\ pc[p] = "idle"
    /\ Budget
    /\ served' = served + 1


\* extend or overwrite a history map at one id
Put(f, id, v) == [x \in DOMAIN f \cup {id} |-> IF x = id THEN v ELSE f[x]]
Drop(f, id) == [x \in DOMAIN f \ {id} |-> f[x]]

\* ---- POST /todos : create_todo ---------------------------------------------

\* body validation (422), then `now = _utc_now_iso()` and `conn = _connect()`
CreateStart(p, body) ==
    /\ Accept(p)
    /\ req' = [req EXCEPT ![p] = [op |-> "create", id |-> 0, body |-> body]]
    /\ IF ~ValidCreate(body)
       THEN /\ Finish(p, Response(422, <<>>))
            /\ UNCHANGED <<loc, conns>>
       ELSE /\ pc' = [pc EXCEPT ![p] = "create_insert"]
            /\ loc' = [loc EXCEPT ![p].now = UtcNowIso(clock)]
            /\ conns' = Connect(conns, p)
            /\ UNCHANGED res
    /\ UNCHANGED <<store, clock, ghost, fresh>>
    /\ UNCHANGED <<boots, present>>
    /\ UNCHANGED txn

\* the INSERT: it takes the write lock, or fails when the lock stays taken
CreateInsert(p) ==
    /\ pc[p] = "create_insert"
    /\ IF txn.owner = 0
       THEN LET body == req[p].body
                completed_int == CompletedInt(CreateCompleted(body))
            IN /\ txn' = Begin(p, SqlInsert(todos, seq, body.title, completed_int, loc[p].now),
                               NextRowid(todos, seq))
               /\ pc' = [pc EXCEPT ![p] = "create_commit"]
               /\ UNCHANGED <<res, conns>>
       ELSE Busy(p) /\ UNCHANGED txn
    /\ UNCHANGED <<store, clock, req, loc, served, ghost, fresh>>
    /\ UNCHANGED <<boots, present>>

\* conn.commit() and `todo_id = cur.lastrowid`
CreateCommit(p) ==
    /\ pc[p] = "create_commit"
    /\ IF Shared \ {p} = {}
       THEN /\ LET body == req[p].body
                   rid == txn.seq
               IN /\ todos' = txn.todos
                  /\ seq' = txn.seq
                  /\ txn' = NoTxn
                  /\ loc' = [loc EXCEPT ![p].todo_id = rid]
                  /\ issued' = Append(issued, [id |-> rid, rows |-> DOMAIN todos])
                  /\ written' = Put(written, rid,
                         [title |-> body.title, completed |-> CreateCompleted(body),
                          created_at |-> loc[p].now, updated_at |-> loc[p].now])
                  /\ toggles' = Put(toggles, rid, <<>>)
            /\ pc' = [pc EXCEPT ![p] = "create_reread"]
            /\ UNCHANGED <<schema, clock, req, res, conns, served, deleted, fresh>>
            /\ UNCHANGED <<boots, present>>
       ELSE /\ Busy(p)
            /\ txn' = NoTxn
            /\ UNCHANGED <<store, clock, req, loc, served, ghost, fresh>>
            /\ UNCHANGED <<boots, present>>

\* conn.execute(SELECT ...) of the new row: no row leaves None to
\* `_row_to_todo(row)` and the request ends with 500 and conn.close()
CreateReread(p) ==
    /\ pc[p] = "create_reread"
    /\ IF SelectById(todos, loc[p].todo_id) = <<>>
       THEN /\ Finish(p, RowResponse(201, <<>>))
            /\ conns' = Close(conns, p)
       ELSE /\ pc' = [pc EXCEPT ![p] = "create_fetch"]
            /\ UNCHANGED <<res, conns>>
    /\ UNCHANGED <<store, clock, req, loc, served, ghost, fresh>>
    /\ UNCHANGED <<boots, present>>
    /\ UNCHANGED txn

\* .fetchone(), `return _row_to_todo(row)`, conn.close()
CreateFetch(p) ==
    /\ pc[p] = "create_fetch"
    /\ Finish(p, RowResponse(201, SelectById(todos, loc[p].todo_id)))
    /\ conns' = Close(conns, p)
    /\ UNCHANGED <<store, clock, req, loc, served, ghost, fresh>>
    /\ UNCHANGED <<boots, present>>
    /\ UNCHANGED txn

\* ---- GET /todos : list_todos -----------------------------------------------

\* `conn = _connect()` and conn.execute(SELECT ... ORDER BY id DESC); an empty
\* table is answered at once
ListTodos(p) ==
    /\ Accept(p)
    /\ req' = [req EXCEPT ![p] = [op |-> "list", id |-> 0, body |-> NoBody]]
    /\ IF SelectAllDesc(todos) = <<>>
       THEN /\ Finish(p, [status |-> 200, body |-> <<>>, total |-> 0])
            /\ conns' = Close(Connect(conns, p), p)
       ELSE /\ pc' = [pc EXCEPT ![p] = "list_fetch"]
            /\ conns' = Connect(conns, p)
            /\ UNCHANGED res
    /\ UNCHANGED <<store, clock, loc, ghost, fresh>>
    /\ UNCHANGED <<boots, present>>
    /\ UNCHANGED txn

\* .fetchall(), the TodoList of the rows, conn.close()
ListFetch(p) ==
    /\ pc[p] = "list_fetch"
    /\ LET items == MapRowToTodo(SelectAllDesc(todos)) IN
       Finish(p, [status |-> 200, body |-> items, total |-> Len(items)])
    /\ conns' = Close(conns, p)
    /\ UNCHANGED <<store, clock, req, loc, served, ghost, fresh>>
    /\ UNCHANGED <<boots, present>>
    /\ UNCHANGED txn

\* ---- GET /todos/{id} : get_todo --------------------------------------------

\* path validation (422), `conn = _connect()`, conn.execute(SELECT ...); no
\* row is answered 404 at once
GetTodo(p, id) ==
    /\ Accept(p)
    /\ req' = [req EXCEPT ![p] = [op |-> "get", id |-> id, body |-> NoBody]]
    /\ IF ~ValidId(id)
       THEN /\ Finish(p, Response(422, <<>>))
            /\ UNCHANGED conns
       ELSE IF SelectById(todos, id) = <<>>
            THEN /\ Finish(p, Response(404, <<>>))
                 /\ conns' = Close(Connect(conns, p), p)
            ELSE /\ pc' = [pc EXCEPT ![p] = "get_fetch"]
                 /\ conns' = Connect(conns, p)
                 /\ UNCHANGED res
    /\ UNCHANGED <<store, clock, loc, ghost, fresh>>
    /\ UNCHANGED <<boots, present>>
    /\ UNCHANGED txn

\* .fetchone(), `return _row_to_todo(row)`, conn.close()
GetFetch(p) ==
    /\ pc[p] = "get_fetch"
    /\ Finish(p, RowResponse(200, SelectById(todos, req[p].id)))
    /\ conns' = Close(conns, p)
    /\ UNCHANGED <<store, clock, req, loc, served, ghost, fresh>>
    /\ UNCHANGED <<boots, present>>
    /\ UNCHANGED txn

\* ---- PUT /todos/{id} : update_todo -----------------------------------------

\* path and body validation (422), `conn = _connect()`, conn.execute(SELECT
\* ...) of the lookup; no row is answered 404 at once
UpdateLookup(p, id, body) ==
    /\ Accept(p)
    /\ req' = [req EXCEPT ![p] = [op |-> "update", id |-> id, body |-> body]]
    /\ IF ~(ValidId(id) /\ ValidUpdate(body))
       THEN /\ Finish(p, Response(422, <<>>))
            /\ UNCHANGED conns
       ELSE IF SelectById(todos, id) = <<>>
            THEN /\ Finish(p, Response(404, <<>>))
                 /\ conns' = Close(Connect(conns, p), p)
            ELSE /\ pc' = [pc EXCEPT ![p] = "update_fetch"]
                 /\ conns' = Connect(conns, p)
                 /\ UNCHANGED res
    /\ UNCHANGED <<store, clock, loc, ghost, fresh>>
    /\ UNCHANGED <<boots, present>>
    /\ UNCHANGED txn

\* .fetchone() of the lookup
UpdateFetch(p) ==
    /\ pc[p] = "update_fetch"
    /\ pc' = [pc EXCEPT ![p] = "update_now"]
    /\ UNCHANGED <<store, clock, req, loc, res, conns, served, ghost, fresh>>
    /\ UNCHANGED <<boots, present>>
    /\ UNCHANGED txn

\* now = _utc_now_iso()
UpdateNow(p) ==
    /\ pc[p] = "update_now"
    /\ pc' = [pc EXCEPT ![p] = "update_write"]
    /\ loc' = [loc EXCEPT ![p].now = UtcNowIso(clock)]
    /\ fresh' = fresh \cup {p}
    /\ UNCHANGED <<store, clock, req, res, conns, served, ghost>>
    /\ UNCHANGED <<boots, present>>
    /\ UNCHANGED txn

\* the UPDATE: it takes the write lock, or fails when the lock stays taken
UpdateWrite(p) ==
    /\ pc[p] = "update_write"
    /\ IF txn.owner = 0
       THEN LET body == req[p].body
            IN /\ txn' = Begin(p, SqlUpdate(todos, body.title, CompletedInt(body.completed),
                                            loc[p].now, req[p].id), seq)
               /\ pc' = [pc EXCEPT ![p] = "update_commit"]
               /\ UNCHANGED <<res, conns>>
       ELSE Busy(p) /\ UNCHANGED txn
    /\ UNCHANGED <<store, clock, req, loc, served, ghost, fresh>>
    /\ UNCHANGED <<boots, present>>

\* conn.commit()
UpdateCommit(p) ==
    /\ pc[p] = "update_commit"
    /\ IF Shared \ {p} = {}
       THEN /\ todos' = txn.todos
            /\ txn' = NoTxn
            /\ LET id == req[p].id
                   body == req[p].body
               IN IF id \in DOMAIN todos
                  THEN /\ written' = Put(written, id,
                              [title |-> body.title, completed |-> body.completed,
                               created_at |-> written[id].created_at,
                               updated_at |-> loc[p].now])
                       /\ toggles' = Put(toggles, id, <<>>)
                  ELSE UNCHANGED <<written, toggles>>
            /\ fresh' = fresh \ {r \in Procs : req[r].id = req[p].id}
            /\ pc' = [pc EXCEPT ![p] = "update_reread"]
            /\ UNCHANGED <<schema, seq, clock, req, loc, res, conns, served, issued, deleted>>
            /\ UNCHANGED <<boots, present>>
       ELSE /\ Busy(p)
            /\ txn' = NoTxn
            /\ UNCHANGED <<store, clock, req, loc, served, ghost, fresh>>
            /\ UNCHANGED <<boots, present>>

\* conn.execute(SELECT ...) of the row: no row leaves None to
\* `_row_to_todo(row)` and the request ends with 500 and conn.close()
UpdateReread(p) ==
    /\ pc[p] = "update_reread"
    /\ IF SelectById(todos, req[p].id) = <<>>
       THEN /\ Finish(p, RowResponse(200, <<>>))
            /\ conns' = Close(conns, p)
       ELSE /\ pc' = [pc EXCEPT ![p] = "update_refetch"]
            /\ UNCHANGED <<res, conns>>
    /\ UNCHANGED <<store, clock, req, loc, served, ghost, fresh>>
    /\ UNCHANGED <<boots, present>>
    /\ UNCHANGED txn

\* .fetchone(), `return _row_to_todo(row)`, conn.close()
UpdateRefetch(p) ==
    /\ pc[p] = "update_refetch"
    /\ Finish(p, RowResponse(200, SelectById(todos, req[p].id)))
    /\ conns' = Close(conns, p)
    /\ UNCHANGED <<store, clock, req, loc, served, ghost, fresh>>
    /\ UNCHANGED <<boots, present>>
    /\ UNCHANGED txn

\* ---- DELETE /todos/{id} : delete_todo --------------------------------------

\* path validation (422), `conn = _connect()`
DeleteStart(p, id) ==
    /\ Accept(p)
    /\ req' = [req EXCEPT ![p] = [op |-> "delete", id |-> id, body |-> NoBody]]
    /\ IF ~ValidId(id)
       THEN /\ Finish(p, Response(422, <<>>))
            /\ UNCHANGED conns
       ELSE /\ pc' = [pc EXCEPT ![p] = "delete_execute"]
            /\ conns' = Connect(conns, p)
            /\ UNCHANGED res
    /\ present' = IF ValidId(id) /\ id \in DOMAIN todos THEN present \cup {p} ELSE present
    /\ UNCHANGED <<store, clock, loc, ghost, fresh>>
    /\ UNCHANGED boots
    /\ UNCHANGED txn

\* the DELETE: it takes the write lock, or fails when the lock stays taken
DeleteExecute(p) ==
    /\ pc[p] = "delete_execute"
    /\ IF txn.owner = 0
       THEN /\ txn' = Begin(p, SqlDelete(todos, req[p].id), seq)
            /\ pc' = [pc EXCEPT ![p] = "delete_commit"]
            /\ UNCHANGED <<res, conns>>
       ELSE Busy(p) /\ UNCHANGED txn
    /\ UNCHANGED <<store, clock, req, loc, served, ghost, fresh>>
    /\ UNCHANGED <<boots, present>>

\* conn.commit(), the test of the rowcount of the DELETE (404), the empty 204
\* response, conn.close()
DeleteCommit(p) ==
    /\ pc[p] = "delete_commit"
    /\ IF Shared \ {p} = {}
       THEN /\ todos' = txn.todos
            /\ txn' = NoTxn
            /\ IF DeleteRowcount(todos, req[p].id) = 0
               THEN /\ Finish(p, Response(404, <<>>))
                    /\ UNCHANGED <<written, toggles, deleted>>
               ELSE /\ Finish(p, Response(204, <<>>))
                    /\ written' = Drop(written, req[p].id)
                    /\ toggles' = Drop(toggles, req[p].id)
                    /\ deleted' = deleted \cup {req[p].id}
            /\ conns' = Close(conns, p)
            /\ UNCHANGED <<schema, seq, clock, req, loc, served, issued, fresh>>
            /\ UNCHANGED <<boots, present>>
       ELSE /\ Busy(p)
            /\ txn' = NoTxn
            /\ UNCHANGED <<store, clock, req, loc, served, ghost, fresh>>
            /\ UNCHANGED <<boots, present>>

\* ---- PATCH /todos/{id}/toggle : toggle_todo --------------------------------

\* path validation (422), `conn = _connect()`, conn.execute(SELECT ...) of the
\* lookup; no row is answered 404 at once
ToggleLookup(p, id) ==
    /\ Accept(p)
    /\ req' = [req EXCEPT ![p] = [op |-> "toggle", id |-> id, body |-> NoBody]]
    /\ IF ~ValidId(id)
       THEN /\ Finish(p, Response(422, <<>>))
            /\ UNCHANGED conns
       ELSE IF SelectById(todos, id) = <<>>
            THEN /\ Finish(p, Response(404, <<>>))
                 /\ conns' = Close(Connect(conns, p), p)
            ELSE /\ pc' = [pc EXCEPT ![p] = "toggle_fetch"]
                 /\ conns' = Connect(conns, p)
                 /\ UNCHANGED res
    /\ UNCHANGED <<store, clock, loc, ghost, fresh>>
    /\ UNCHANGED <<boots, present>>
    /\ UNCHANGED txn

\* .fetchone() of the lookup, current_completed and new_completed
ToggleFetch(p) ==
    /\ pc[p] = "toggle_fetch"
    /\ pc' = [pc EXCEPT ![p] = "toggle_now"]
    /\ LET row == SelectById(todos, req[p].id) IN
       loc' = [loc EXCEPT ![p].current_completed = row[1].completed,
                          ![p].new_completed = NewCompleted(row[1].completed)]
    /\ UNCHANGED <<store, clock, req, res, conns, served, ghost, fresh>>
    /\ UNCHANGED <<boots, present>>
    /\ UNCHANGED txn

\* now = _utc_now_iso()
ToggleNow(p) ==
    /\ pc[p] = "toggle_now"
    /\ pc' = [pc EXCEPT ![p] = "toggle_write"]
    /\ loc' = [loc EXCEPT ![p].now = UtcNowIso(clock)]
    /\ fresh' = fresh \cup {p}
    /\ UNCHANGED <<store, clock, req, res, conns, served, ghost>>
    /\ UNCHANGED <<boots, present>>
    /\ UNCHANGED txn

\* the UPDATE: it takes the write lock, or fails when the lock stays taken
ToggleWrite(p) ==
    /\ pc[p] = "toggle_write"
    /\ IF txn.owner = 0
       THEN /\ txn' = Begin(p, SqlToggle(todos, loc[p].new_completed, loc[p].now, req[p].id), seq)
            /\ pc' = [pc EXCEPT ![p] = "toggle_commit"]
            /\ UNCHANGED <<res, conns>>
       ELSE Busy(p) /\ UNCHANGED txn
    /\ UNCHANGED <<store, clock, req, loc, served, ghost, fresh>>
    /\ UNCHANGED <<boots, present>>

\* conn.commit()
ToggleCommit(p) ==
    /\ pc[p] = "toggle_commit"
    /\ IF Shared \ {p} = {}
       THEN /\ todos' = txn.todos
            /\ txn' = NoTxn
            /\ LET id == req[p].id
               IN IF id \in DOMAIN todos
                  THEN /\ written' = Put(written, id,
                              [written[id] EXCEPT !.completed = (loc[p].new_completed = 1),
                                                  !.updated_at = loc[p].now])
                       /\ toggles' = Put(toggles, id, Push(toggles[id], todos[id].completed))
                  ELSE UNCHANGED <<written, toggles>>
            /\ fresh' = fresh \ {r \in Procs : req[r].id = req[p].id}
            /\ pc' = [pc EXCEPT ![p] = "toggle_reread"]
            /\ UNCHANGED <<schema, seq, clock, req, loc, res, conns, served, issued, deleted>>
            /\ UNCHANGED <<boots, present>>
       ELSE /\ Busy(p)
            /\ txn' = NoTxn
            /\ UNCHANGED <<store, clock, req, loc, served, ghost, fresh>>
            /\ UNCHANGED <<boots, present>>

\* conn.execute(SELECT ...) of the row: no row leaves None to
\* `_row_to_todo(updated)` and the request ends with 500 and conn.close()
ToggleReread(p) ==
    /\ pc[p] = "toggle_reread"
    /\ IF SelectById(todos, req[p].id) = <<>>
       THEN /\ Finish(p, RowResponse(200, <<>>))
            /\ conns' = Close(conns, p)
       ELSE /\ pc' = [pc EXCEPT ![p] = "toggle_refetch"]
            /\ UNCHANGED <<res, conns>>
    /\ UNCHANGED <<store, clock, req, loc, served, ghost, fresh>>
    /\ UNCHANGED <<boots, present>>
    /\ UNCHANGED txn

\* .fetchone(), `return _row_to_todo(updated)`, conn.close()
ToggleRefetch(p) ==
    /\ pc[p] = "toggle_refetch"
    /\ Finish(p, RowResponse(200, SelectById(todos, req[p].id)))
    /\ conns' = Close(conns, p)
    /\ UNCHANGED <<store, clock, req, loc, served, ghost, fresh>>
    /\ UNCHANGED <<boots, present>>
    /\ UNCHANGED txn

\* the response has been sent; the worker is free for the next request or
\* restart within the bound
Return(p) ==
    /\ pc[p] = "done"
    /\ Budget
    /\ pc' = [pc EXCEPT ![p] = "idle"]
    /\ req' = [req EXCEPT ![p] = NoReq]
    /\ loc' = [loc EXCEPT ![p] = NoLoc]
    /\ res' = [res EXCEPT ![p] = NoRes]
    /\ fresh' = fresh \ {p}
    /\ present' = present \ {p}
    /\ UNCHANGED <<store, clock, conns, served, ghost>>
    /\ UNCHANGED boots
    /\ UNCHANGED txn

\* one statement of request p
Step(p) ==
    \/ \E body \in CreateBodies : CreateStart(p, body)
    \/ CreateInsert(p)
    \/ CreateCommit(p)
    \/ CreateReread(p)
    \/ CreateFetch(p)
    \/ ListTodos(p)
    \/ ListFetch(p)
    \/ \E id \in Ids : GetTodo(p, id)
    \/ GetFetch(p)
    \/ \E id \in Ids, body \in UpdateBodies : UpdateLookup(p, id, body)
    \/ UpdateFetch(p)
    \/ UpdateNow(p)
    \/ UpdateWrite(p)
    \/ UpdateCommit(p)
    \/ UpdateReread(p)
    \/ UpdateRefetch(p)
    \/ \E id \in Ids : DeleteStart(p, id)
    \/ DeleteExecute(p)
    \/ DeleteCommit(p)
    \/ \E id \in Ids : ToggleLookup(p, id)
    \/ ToggleFetch(p)
    \/ ToggleNow(p)
    \/ ToggleWrite(p)
    \/ ToggleCommit(p)
    \/ ToggleReread(p)
    \/ ToggleRefetch(p)
    \/ Return(p)

\* requests handled concurrently, one worker thread each
Next == Startup \/ Tick \/ \E p \in Procs : Step(p)

Spec == Init /\ [][Next]_vars

\* requests handled one after the other: a request starts when no other is in flight
Alone(p) == \A q \in Procs \ {p} : pc[q] = "idle"

SeqStep(p) ==
    \/ Alone(p) /\ \E body \in CreateBodies : CreateStart(p, body)
    \/ Alone(p) /\ CreateInsert(p)
    \/ Alone(p) /\ CreateCommit(p)
    \/ Alone(p) /\ CreateReread(p)
    \/ Alone(p) /\ CreateFetch(p)
    \/ Alone(p) /\ ListTodos(p)
    \/ Alone(p) /\ ListFetch(p)
    \/ Alone(p) /\ \E id \in Ids : GetTodo(p, id)
    \/ Alone(p) /\ GetFetch(p)
    \/ Alone(p) /\ \E id \in Ids, body \in UpdateBodies : UpdateLookup(p, id, body)
    \/ Alone(p) /\ UpdateFetch(p)
    \/ Alone(p) /\ UpdateNow(p)
    \/ Alone(p) /\ UpdateWrite(p)
    \/ Alone(p) /\ UpdateCommit(p)
    \/ Alone(p) /\ UpdateReread(p)
    \/ Alone(p) /\ UpdateRefetch(p)
    \/ Alone(p) /\ \E id \in Ids : DeleteStart(p, id)
    \/ Alone(p) /\ DeleteExecute(p)
    \/ Alone(p) /\ DeleteCommit(p)
    \/ Alone(p) /\ \E id \in Ids : ToggleLookup(p, id)
    \/ Alone(p) /\ ToggleFetch(p)
    \/ Alone(p) /\ ToggleNow(p)
    \/ Alone(p) /\ ToggleWrite(p)
    \/ Alone(p) /\ ToggleCommit(p)
    \/ Alone(p) /\ ToggleReread(p)
    \/ Alone(p) /\ ToggleRefetch(p)
    \/ Alone(p) /\ Return(p)

SeqNext == Startup \/ Tick \/ \E p \in Procs : SeqStep(p)

SeqSpec == Init /\ [][SeqNext]_vars

\* ---- properties -----------------------------------------------------------

Done(p, op) == pc[p] = "done" /\ req[p].op = op

\* the record get(id) is to return for an id, from the history of writes
LastWritten(id) ==
    [id |-> id, title |-> written[id].title, completed |-> written[id].completed,
     created_at |-> written[id].created_at, updated_at |-> written[id].updated_at]

\* a request of one of `ops` is answered in this step
Answered(p, ops) ==
    /\ pc[p] # "done"
    /\ pc'[p] = "done"
    /\ req'[p].op \in ops

\* C1: a get of an id that is in the table answers 200 with exactly the title
\* and completed last written to the id by create, update or toggle, the
\* created_at of its create and the updated_at of its last write, after every
\* history of requests, interleaved ones too.
C1_GetReturnsLastWritten ==
    [][\A p \in Procs :
          (Answered(p, {"get"}) /\ req'[p].id \in DOMAIN todos) =>
              /\ res'[p].status = 200
              /\ req'[p].id \in DOMAIN written
              /\ res'[p].body = <<LastWritten(req'[p].id)>>]_vars

\* a get answered after an update was applied to the id
C1_Witness ==
    \E p \in Procs :
        /\ Done(p, "get")
        /\ res[p].status = 200
        /\ res[p].body[1].title = "b"

\* C2: the ids assigned by create are strictly increasing in the order of
\* assignment, whatever was deleted in between.
C2_IdsStrictlyIncrease ==
    \A i, j \in 1..Len(issued) : i < j => issued[i].id < issued[j].id

\* a second id was assigned when the table had been emptied again
C2_Witness ==
    /\ Len(issued) >= 2
    /\ issued[Len(issued)].rows = {}
    /\ issued[1].id \in deleted

\* C3: the write of a toggle stores the new_completed that toggle computed from
\* its own lookup, whatever was written to the row since the lookup: the value
\* left in the row is the one of the toggle whose write is applied last.
C3_LastToggleWriteWins ==
    [][\A p \in Procs :
          (pc[p] = "toggle_commit" /\ pc'[p] = "toggle_reread"
              /\ req[p].id \in DOMAIN todos)
          => todos'[req[p].id].completed = loc[p].new_completed]_vars

\* the lost update: two toggles of one id both read the same completed, both
\* answered 200, both writes were applied, and completed is flipped once
C3_Witness ==
    \E p, q \in Procs :
        /\ p # q
        /\ Done(p, "toggle") /\ Done(q, "toggle")
        /\ req[p].id = req[q].id
        /\ res[p].status = 200 /\ res[q].status = 200
        /\ loc[p].current_completed = loc[q].current_completed
        /\ req[p].id \in DOMAIN todos
        /\ Len(toggles[req[p].id]) = 2
        /\ todos[req[p].id].completed = NewCompleted(loc[p].current_completed)

\* C4: with requests handled one after the other, a toggle answers with
\* completed the negation of the value stored before it, and after two toggles
\* of an id with no other write to it in between completed is the value stored
\* before the first.
C4_ToggleTwiceRestores ==
    /\ \A id \in DOMAIN todos \cap DOMAIN toggles :
          Len(toggles[id]) = 2 => todos[id].completed = toggles[id][1]
    /\ \A p \in Procs :
          (Done(p, "toggle") /\ res[p].status = 200) =>
              /\ req[p].id \in DOMAIN toggles
              /\ Len(toggles[req[p].id]) >= 1
              /\ LET h == toggles[req[p].id] IN
                 res[p].body[1].completed = (h[Len(h)] = 0)

\* two toggles of one id in a row, the second answered
C4_Witness ==
    \E p \in Procs :
        /\ Done(p, "toggle")
        /\ res[p].status = 200
        /\ req[p].id \in DOMAIN toggles
        /\ Len(toggles[req[p].id]) = 2

\* the UPDATE of toggle request p is applied to a row
ToggleApplied(p) ==
    /\ pc[p] = "toggle_commit"
    /\ pc'[p] = "toggle_reread"
    /\ req[p].id \in DOMAIN todos

\* C5 as stated: each toggle leaves updated_at strictly greater than it was
\* before the call.
C5_ToggleStrictlyAdvances ==
    [][\A p \in Procs :
          ToggleApplied(p) =>
              todos'[req[p].id].updated_at > todos[req[p].id].updated_at]_vars

\* C5 as amended: with requests handled one after the other, the toggle reads
\* the clock as the whole second it is in, and its write leaves updated_at at
\* that second, which is never less than updated_at was before the call (and
\* equal to it when the second has not changed since the row's last write).
C5_ToggleStampsClockSecond ==
    [][\A p \in Procs :
          /\ (pc[p] = "toggle_now" /\ pc'[p] = "toggle_write") =>
                /\ loc'[p].now * TicksPerSec <= clock
                /\ clock < (loc'[p].now + 1) * TicksPerSec
          /\ ToggleApplied(p) =>
                /\ todos'[req[p].id].updated_at = loc[p].now
                /\ todos'[req[p].id].updated_at >= todos[req[p].id].updated_at]_vars

\* a toggle applied in a later second than the row's create
C5_Witness ==
    \E p \in Procs :
        /\ Done(p, "toggle")
        /\ res[p].status = 200
        /\ res[p].body[1].updated_at > res[p].body[1].created_at

\* the commit of request p finds no other connection reading: it gets the
\* exclusive lock
CommitsUnhindered(p) == pc[p] = "delete_commit" /\ Shared \ {p} = {}

\* C6: an id a delete has removed is in the table in no later state, every
\* later get of it answers 404, and so does every later delete of it whose
\* DELETE statement has run and is committed (one that follows the calls before
\* it, or got the locks of the database among concurrent ones).
C6_DeletedStaysGone ==
    [][/\ \A id \in deleted' : id \notin DOMAIN todos'
       /\ \A p \in Procs :
             (/\ Answered(p, {"get", "delete"})
              /\ pc[p] = "idle" \/ CommitsUnhindered(p)
              /\ req'[p].id \in deleted)
             => res'[p].status = 404]_vars

\* a get of a deleted id, answered 404
C6_Witness ==
    \E p \in Procs :
        /\ Done(p, "get")
        /\ req[p].id \in deleted
        /\ res[p].status = 404

\* C7: in every reachable state list answers 200 with one item for each row of
\* the table, the items in strictly descending order of id, each the row's
\* fields, and total the number of rows (0 and no item for an empty table).
C7_ListAllDescending ==
    [][\A p \in Procs :
        Answered(p, {"list"}) =>
            LET items == res'[p].body IN
            /\ res'[p].status = 200
            /\ res'[p].total = Len(items)
            /\ Len(items) = Cardinality(DOMAIN todos)
            /\ {items[i].id : i \in 1..Len(items)} = DOMAIN todos
            /\ \A i, j \in 1..Len(items) : i < j => items[i].id > items[j].id
            /\ \A i \in 1..Len(items) :
                  LET row == todos[items[i].id] IN
                  /\ items[i].title = row.title
                  /\ items[i].completed = (row.completed = 1)
                  /\ items[i].created_at = row.created_at
                  /\ items[i].updated_at = row.updated_at]_vars

\* a list of two items answered, the larger id first
C7_Witness ==
    \E p \in Procs :
        /\ Done(p, "list")
        /\ Len(res[p].body) = 2
        /\ res[p].body[1].id = 2
        /\ res[p].body[2].id = 1

\* C8: with requests handled one after the other, a create with a title of at
\* least one character answers 201 with the new row: an id of at least 1 that no
\* row held when it was assigned, the title sent, created_at equal to
\* updated_at, and completed as sent, or false when it was left out.
C8_CreateReturnsRecord ==
    \A p \in Procs :
        (Done(p, "create") /\ "title" \in DOMAIN req[p].body
            /\ req[p].body.title # "") =>
            /\ res[p].status = 201
            /\ Len(issued) >= 1
            /\ LET t == res[p].body[1]
                   last == issued[Len(issued)]
               IN /\ t.id >= 1
                  /\ t.id = last.id
                  /\ t.id \notin last.rows
                  /\ t.id \notin deleted
                  /\ t.title = req[p].body.title
                  /\ t.created_at = t.updated_at
                  /\ IF "completed" \in DOMAIN req[p].body
                     THEN t.completed = req[p].body.completed
                     ELSE t.completed = FALSE

\* a create that left completed out, answered with completed false
C8_Witness ==
    \E p \in Procs :
        /\ Done(p, "create")
        /\ "completed" \notin DOMAIN req[p].body
        /\ res[p].status = 201
        /\ res[p].body[1].completed = FALSE

\* C9: a get, update (with a valid body), toggle or delete of an id of at least
\* 1 that is not in the table when the request looks the id up (for a delete:
\* when its DELETE statement has run and is committed) is answered 404 by that
\* step, and the step that answers 404 leaves the table and its id counter as
\* they were.
C9_NotFoundLeavesStore ==
    [][\A p \in Procs :
          /\ (/\ \/ /\ pc[p] = "idle" /\ pc'[p] # "idle"
                    /\ req'[p].op \in {"get", "update", "toggle"}
                 \/ CommitsUnhindered(p) /\ pc'[p] # "delete_commit"
              /\ req'[p].id >= 1
              /\ req'[p].id \notin DOMAIN todos
              /\ (req'[p].op = "update" =>
                     /\ DOMAIN req'[p].body = {"title", "completed"}
                     /\ req'[p].body.title # ""))
             => (pc'[p] = "done" /\ res'[p].status = 404)
          /\ (res'[p].status = 404 /\ res[p].status # 404)
             => (todos' = todos /\ seq' = seq /\ schema' = schema)]_vars

\* an update of an id that is not in the table, answered 404
C9_Witness ==
    \E p \in Procs :
        /\ Done(p, "update")
        /\ res[p].status = 404
        /\ req[p].id \notin DOMAIN todos

\* C10: a create whose title is "" or missing is answered 422 in the step that
\* accepts it, with no connection opened, the table, its id counter and the ids
\* assigned left as they were, and so the id of the next insert too.
C10_EmptyTitleRejected ==
    [][\A p \in Procs :
          (/\ pc[p] = "idle" /\ pc'[p] # "idle"
           /\ req'[p].op = "create"
           /\ ("title" \notin DOMAIN req'[p].body \/ req'[p].body.title = ""))
          => /\ pc'[p] = "done"
             /\ res'[p].status = 422
             /\ conns' = conns
             /\ todos' = todos /\ seq' = seq /\ issued' = issued
             /\ NextRowid(todos', seq') = NextRowid(todos, seq)]_vars

\* a create with title "" answered 422 after an id had been assigned
C10_Witness ==
    \E p \in Procs :
        /\ Done(p, "create")
        /\ "title" \in DOMAIN req[p].body
        /\ req[p].body.title = ""
        /\ res[p].status = 422
        /\ seq >= 1

\* C11: in every reachable state every row of the table has a title of at
\* least one character, whatever requests were accepted or rejected.
C11_TitleNeverEmpty ==
    \A id \in DOMAIN todos : Len(todos[id].title) >= 1

\* an update with title "" of an id that is in the table, answered 422
C11_Witness ==
    \E p \in Procs :
        /\ Done(p, "update")
        /\ req[p].id \in DOMAIN todos
        /\ "title" \in DOMAIN req[p].body
        /\ req[p].body.title = ""
        /\ res[p].status = 422

\* C12: in every reachable state, those reached by interleaved requests too,
\* every row of the table has updated_at >= created_at (the clock does not go
\* backwards).
C12_UpdatedNotBeforeCreated ==
    \A id \in DOMAIN todos : todos[id].updated_at >= todos[id].created_at

\* two writers of one row interleaved: the one that read the clock first
\* applied its write last, and the row holds its clock reading
C12_Witness ==
    \E p, q \in Procs :
        /\ p # q
        /\ pc[p] = "done" /\ pc[q] = "done"
        /\ req[p].op \in {"update", "toggle"}
        /\ req[q].op \in {"update", "toggle"}
        /\ req[p].id = req[q].id
        /\ res[p].status = 200 /\ res[q].status = 200
        /\ loc[p].now > loc[q].now
        /\ req[p].id \in DOMAIN todos
        /\ todos[req[p].id].updated_at = loc[q].now

\* the UPDATE of update or toggle request p is applied to row id
WriteApplied(p, id) ==
    /\ \/ pc[p] = "update_commit" /\ pc'[p] = "update_reread"
       \/ pc[p] = "toggle_commit" /\ pc'[p] = "toggle_reread"
    /\ req[p].id = id

\* C13 as stated: no step lowers the updated_at of a row, in histories of
\* interleaved update and toggle requests too.
C13_UpdatedAtNeverDecreases ==
    [][\A id \in DOMAIN todos \cap DOMAIN todos' :
          todos'[id].updated_at >= todos[id].updated_at]_vars

\* C13 as amended: the updated_at of a row is lowered by no step but the write
\* of an update or toggle that read the clock before another write was applied
\* to the row; a write that read the clock after the last write applied to the
\* row (every write, when requests are handled one after the other) does not
\* lower it.
C13_OnlyStaleWriteLowersUpdatedAt ==
    [][\A id \in DOMAIN todos \cap DOMAIN todos' :
          todos'[id].updated_at < todos[id].updated_at =>
              \E p \in Procs : WriteApplied(p, id) /\ p \notin fresh]_vars

\* a write applied that read the clock after the write of the other request
\* to the same row: the row holds its clock reading, the later second
C13_Witness ==
    \E p, q \in Procs :
        /\ p # q
        /\ pc[p] \in {"update_reread", "toggle_reread"}
        /\ pc[q] \in {"update_reread", "toggle_reread", "done"}
        /\ req[q].op \in {"update", "toggle"}
        /\ req[p].id = req[q].id
        /\ req[p].id \in DOMAIN todos
        /\ loc[p].now > loc[q].now
        /\ todos[req[p].id].updated_at = loc[p].now

\* C14: the write of an update leaves the id and created_at of its row, the
\* write of a toggle the id, created_at and title of its row, as they were;
\* both leave every other row, the set of rows and the id counter as they
\* were.
C14_WriteFrame ==
    [][\A p \in Procs :
          LET id == req[p].id IN
          (WriteApplied(p, id) /\ id \in DOMAIN todos) =>
              /\ DOMAIN todos' = DOMAIN todos
              /\ seq' = seq
              /\ \A x \in DOMAIN todos \ {id} : todos'[x] = todos[x]
              /\ todos'[id].id = todos[id].id
              /\ todos'[id].created_at = todos[id].created_at
              /\ req[p].op = "toggle" => todos'[id].title = todos[id].title]_vars

\* an update applied to one of two rows
C14_Witness ==
    \E p \in Procs :
        /\ pc[p] = "update_reread"
        /\ req[p].id \in DOMAIN todos
        /\ todos[req[p].id].title = "b"
        /\ Cardinality(DOMAIN todos) = 2

\* C15: a request that has returned, or has not started, holds no open
\* connection, whichever way it returned (success, not-found, or a failure
\* after its commit); when no request is in flight no connection is open; a
\* request in flight closes no connection but its own.
C15_ConnectionsClosed ==
    /\ \A p \in Procs : pc[p] \in {"idle", "done"} => p \notin conns
    /\ (\A p \in Procs : pc[p] \in {"idle", "done"}) => conns = {}
    /\ conns \subseteq Procs

\* a request has left by the failure path while another still holds its
\* connection
C15_Witness ==
    \E p, q \in Procs :
        /\ pc[p] = "done"
        /\ res[p].status = 500
        /\ p \notin conns
        /\ q \in conns

\* C16: a run of the schema initialization on a store that already has the
\* table leaves the table in place and every row and the id counter as they
\* were.
C16_InitIdempotent ==
    [][(boots' # boots /\ schema) =>
          /\ schema'
          /\ todos' = todos
          /\ seq' = seq]_vars

\* the initialization has run twice more on a table holding a row, and the
\* row and the counter are still there
C16_Witness ==
    /\ Len(boots) = 3
    /\ boots[2] # {}
    /\ boots[3] = boots[2]
    /\ DOMAIN todos = boots[3]
    /\ seq >= 1

\* C17: every create, update and toggle request that has answered carries a
\* success record (200, 201), a not-found error (404) or a validation error
\* (422), and the row a handler is about to re-read after its commit is in the
\* table.
C17_EndsWithRecordOrNotFound ==
    \A p \in Procs :
        /\ (pc[p] = "done" /\ req[p].op \in {"create", "update", "toggle"}) =>
               res[p].status \in {200, 201, 404, 422}
        /\ pc[p] = "create_reread" => loc[p].todo_id \in DOMAIN todos
        /\ pc[p] \in {"update_reread", "toggle_reread"} => req[p].id \in DOMAIN todos

\* C18 as stated: when two delete requests for one id are in flight together,
\* both accepted while the row was in the table, every answer given so far is
\* 204 or 404, exactly one of them is 204 once one has answered, and an
\* answered one means the row is gone and was removed by a delete.
C18_OneDeleteSucceeds ==
    \A id \in Ids :
        LET racers == {p \in present : req[p].op = "delete" /\ req[p].id = id}
            answered == {p \in racers : pc[p] = "done"}
        IN Cardinality(racers) >= 2 =>
              /\ \A p \in answered : res[p].status \in {204, 404}
              /\ answered # {} =>
                    /\ Cardinality({p \in answered : res[p].status = 204}) = 1
                    /\ id \notin DOMAIN todos
                    /\ id \in deleted

\* C18 as amended: when two delete requests for one id are in flight
\* together, both accepted while the row was in the table, at most one of them
\* is answered 204 and every other 404 or, when its DELETE found the write lock
\* taken, 500; a 204 or a 404 means the row is gone and was removed by a
\* delete, and a row that is gone means one of the two removed it.
C18_AtMostOneDeleteSucceeds ==
    \A id \in Ids :
        LET racers == {p \in present : req[p].op = "delete" /\ req[p].id = id}
            answered == {p \in racers : pc[p] = "done"}
        IN Cardinality(racers) >= 2 =>
              /\ \A p \in answered : res[p].status \in {204, 404, 500}
              /\ Cardinality({p \in answered : res[p].status = 204}) <= 1
              /\ \A p \in answered :
                    res[p].status \in {204, 404} =>
                        (id \notin DOMAIN todos /\ id \in deleted)
              /\ id \notin DOMAIN todos =>
                    \E p \in answered : res[p].status = 204

\* two deletes of one id, both accepted while the row was there, one answered
\* 204 and the other 500
C18_Witness ==
    \E p, q \in present :
        /\ Done(p, "delete") /\ Done(q, "delete")
        /\ req[p].id = req[q].id
        /\ res[p].status = 204
        /\ res[q].status = 500

\* C19: the step of a delete that answers 204 removes the row of its id, which
\* was in the table, and leaves every other row and the id counter as they
\* were; the step that answers a get or a list leaves the table, the id counter
\* and the schema as they were.
C19_DeleteAndReadFrame ==
    [][\A p \in Procs :
          /\ (Answered(p, {"delete"}) /\ res'[p].status = 204) =>
                /\ req[p].id \in DOMAIN todos
                /\ DOMAIN todos' = DOMAIN todos \ {req[p].id}
                /\ \A x \in DOMAIN todos' : todos'[x] = todos[x]
                /\ seq' = seq
          /\ Answered(p, {"get", "list"}) =>
                /\ todos' = todos
                /\ seq' = seq
                /\ schema' = schema]_vars

\* a delete answered 204 with the other row still in the table
C19_Witness ==
    \E p \in Procs :
        /\ Done(p, "delete")
        /\ res[p].status = 204
        /\ req[p].id \notin DOMAIN todos
        /\ DOMAIN todos # {}
        /\ \A x \in DOMAIN todos : x \in DOMAIN written /\ todos[x].title = written[x].title

====
